---- MODULE Spec2Model ----
(***************************************************************************)
(* A model of the socker SOCKS5 library: the wire codec (proto/mod.rs,     *)
(* proto/messages.rs), the client session (client/mod.rs, client/tokio.rs) *)
(* and the server session with its CONNECT relay (server/mod.rs,           *)
(* server/tokio.rs).  Two peers are linked by a full-duplex in-order byte  *)
(* stream; the server additionally owns an outbound stream to the target.  *)
(***************************************************************************)
EXTENDS FiniteSets, Integers, Sequences, TLC

(***************************************************************************)
(* Bounds of the model.                                                    *)
(***************************************************************************)
MaxRawSends == 3
MaxAppBytes == 1
MaxTargetBytes == 1

(***************************************************************************)
(* Protocol constants.                                                     *)
(***************************************************************************)
VERSION == 5
AUTH_VERSION == 1
NO_AUTHENTICATION == 0
GSSAPI == 1
USERNAME_PASSWORD == 2
NO_ACCEPTABLE_METHODS == 255
IP_V4 == 1
DOMAIN_NAME == 3
IP_V6 == 4
CONNECT == 1
BIND == 2
UDP_ASSOCIATE == 3
REPLY_SUCCESS == 0
HOST_UNREACHABLE == 4
COMMAND_NOT_SUPPORTED == 7
STATUS_SUCCESS == 0
STATUS_FAILURE == 1

Byte == 0 .. 255

(***************************************************************************)
(* Values.  An Address is a tagged byte string; a Request or a Response is *)
(* a code byte, an Address and a 16-bit port.                              *)
(***************************************************************************)
Ipv4(octets) == [type |-> "Ipv4", bytes |-> octets]
Domain(domain) == [type |-> "Domain", bytes |-> domain]
Ipv6(octets) == [type |-> "Ipv6", bytes |-> octets]

UNSPECIFIED == <<0, 0, 0, 0>>

Request(command, address, port) ==
    [command |-> command, address |-> address, port |-> port]

Response(reply, address, port) ==
    [reply |-> reply, address |-> address, port |-> port]

\* Response::new_error: the given reply with the zeroed IPv4 endpoint.
new_error(reply) == Response(reply, Ipv4(UNSPECIFIED), 0)

RESPONSE_HOST_UNREACHABLE == new_error(HOST_UNREACHABLE)
RESPONSE_UNSUPPORTED_COMMAND == new_error(COMMAND_NOT_SUPPORTED)

(***************************************************************************)
(* Encoders: the bytes write_to hands to the stream, in order.  A length   *)
(* is written with `as u8`, which keeps its low eight bits.                *)
(***************************************************************************)
AsU8(n) == n % 256

\* A port written low byte first.
U16BE_LittleEndian(port) == <<port % 256, port \div 256>>

U16BE(port) == <<port \div 256, port % 256>>

EncodeAddress(a) ==
    CASE a.type = "Ipv4" -> <<IP_V4>> \o a.bytes
      [] a.type = "Domain" -> <<DOMAIN_NAME, AsU8(Len(a.bytes))>> \o a.bytes
      [] a.type = "Ipv6" -> <<IP_V6>> \o a.bytes

EncodeClientGreeting(methods) == <<VERSION, AsU8(Len(methods))>> \o methods

EncodeServerChoice(method) == <<VERSION, method>>

EncodeRequest(r) ==
    <<VERSION, r.command, 0>> \o EncodeAddress(r.address) \o U16BE(r.port)

EncodeResponse(r) ==
    <<VERSION, r.reply, 0>> \o EncodeAddress(r.address) \o U16BE(r.port)

EncodeClientAuthenticationRequest(username, password) ==
    <<AUTH_VERSION, AsU8(Len(username))>> \o username
        \o <<AsU8(Len(password))>> \o password

EncodeServerResponse(status) == <<AUTH_VERSION, status>>

(***************************************************************************)
(* Decoders.  read_from issues a sequence of read_exact calls; a decoder   *)
(* applied to the bytes available on the stream yields                     *)
(*   Pending        the next read_exact needs bytes that are not there,    *)
(*   Decoded(v, n)  value v, n bytes consumed,                             *)
(*   Failed(e,b,n)  ConversionError e (carrying byte b), n bytes consumed. *)
(***************************************************************************)
Pending == [st |-> "Pending", val |-> <<>>, err |-> "", byte |-> 0, used |-> 0]
Decoded(v, n) == [st |-> "Ok", val |-> v, err |-> "", byte |-> 0, used |-> n]
Failed(e, b, n) == [st |-> "Err", val |-> <<>>, err |-> e, byte |-> b, used |-> n]

\* An Address::read_from whose catch-all arm reads four octets, as for IPv4.
DecodeAddress_Ipv4Fallback(buf, off) ==
    IF Len(buf) < off + 1 THEN Pending
    ELSE LET tag == buf[off + 1] IN
         CASE tag = DOMAIN_NAME ->
                IF Len(buf) < off + 2 THEN Pending
                ELSE LET len == buf[off + 2] IN
                     IF Len(buf) < off + 2 + len THEN Pending
                     ELSE Decoded(Domain(SubSeq(buf, off + 3, off + 2 + len)),
                                  off + 2 + len)
           [] tag = IP_V6 ->
                IF Len(buf) < off + 17 THEN Pending
                ELSE Decoded(Ipv6(SubSeq(buf, off + 2, off + 17)), off + 17)
           [] OTHER ->
                IF Len(buf) < off + 5 THEN Pending
                ELSE Decoded(Ipv4(SubSeq(buf, off + 2, off + 5)), off + 5)

\* Address::read_from, reading from offset off of buf.
DecodeAddress(buf, off) ==
    IF Len(buf) < off + 1 THEN Pending
    ELSE LET tag == buf[off + 1] IN
         CASE tag = IP_V4 ->
                IF Len(buf) < off + 5 THEN Pending
                ELSE Decoded(Ipv4(SubSeq(buf, off + 2, off + 5)), off + 5)
           [] tag = DOMAIN_NAME ->
                IF Len(buf) < off + 2 THEN Pending
                ELSE LET len == buf[off + 2] IN
                     IF Len(buf) < off + 2 + len THEN Pending
                     ELSE Decoded(Domain(SubSeq(buf, off + 3, off + 2 + len)),
                                  off + 2 + len)
           [] tag = IP_V6 ->
                IF Len(buf) < off + 17 THEN Pending
                ELSE Decoded(Ipv6(SubSeq(buf, off + 2, off + 17)), off + 17)
           [] OTHER -> Failed("MalformedMessage", 0, off + 1)

\* ClientGreeting::read_from.
DecodeClientGreeting(buf) ==
    IF Len(buf) < 1 THEN Pending
    ELSE IF buf[1] # VERSION THEN Failed("InvalidProtocolVersion", buf[1], 1)
    ELSE IF Len(buf) < 2 THEN Pending
    ELSE IF Len(buf) < 2 + buf[2] THEN Pending
    ELSE Decoded(SubSeq(buf, 3, 2 + buf[2]), 2 + buf[2])

\* ServerChoice::read_from: one read_exact of two bytes.
DecodeServerChoice(buf) ==
    IF Len(buf) < 2 THEN Pending
    ELSE IF buf[1] # VERSION THEN Failed("InvalidProtocolVersion", buf[1], 2)
    ELSE Decoded(buf[2], 2)

\* The body Request::read_from and Response::read_from share: version,
\* code byte, RSV (consumed, not validated), address, port.
DecodeCodeAddressPort(buf) ==
    IF Len(buf) < 1 THEN Pending
    ELSE IF buf[1] # VERSION THEN Failed("InvalidProtocolVersion", buf[1], 1)
    ELSE IF Len(buf) < 3 THEN Pending
    ELSE LET a == DecodeAddress(buf, 3) IN
         IF a.st # "Ok" THEN a
         ELSE IF Len(buf) < a.used + 2 THEN Pending
         ELSE Decoded(<<buf[2], a.val,
                        buf[a.used + 1] * 256 + buf[a.used + 2]>>,
                      a.used + 2)

\* Request::read_from.
DecodeRequest(buf) ==
    LET d == DecodeCodeAddressPort(buf) IN
    IF d.st # "Ok" THEN d
    ELSE Decoded(Request(d.val[1], d.val[2], d.val[3]), d.used)

\* Response::read_from.
DecodeResponse(buf) ==
    LET d == DecodeCodeAddressPort(buf) IN
    IF d.st # "Ok" THEN d
    ELSE Decoded(Response(d.val[1], d.val[2], d.val[3]), d.used)

\* ClientAuthenticationRequest::read_from.
DecodeClientAuthenticationRequest(buf) ==
    IF Len(buf) < 1 THEN Pending
    ELSE IF buf[1] # AUTH_VERSION
         THEN Failed("InvalidProtocolVersion", buf[1], 1)
    ELSE IF Len(buf) < 2 THEN Pending
    ELSE LET ulen == buf[2] IN
         IF Len(buf) < 3 + ulen THEN Pending
         ELSE LET plen == buf[3 + ulen] IN
              IF Len(buf) < 3 + ulen + plen THEN Pending
              ELSE Decoded(<<SubSeq(buf, 3, 2 + ulen),
                             SubSeq(buf, 4 + ulen, 3 + ulen + plen)>>,
                           3 + ulen + plen)

\* ServerResponse::read_from: one read_exact of two bytes.
DecodeServerResponse(buf) ==
    IF Len(buf) < 2 THEN Pending
    ELSE IF buf[1] # AUTH_VERSION
         THEN Failed("InvalidProtocolVersion", buf[1], 2)
    ELSE Decoded(buf[2], 2)

\* Status::is_failure.
\* An is_failure that knows the one failure code the library itself names.
is_failure_OnlyFailureConst(status) == status = STATUS_FAILURE

is_failure(status) == status \in 1 .. 255

is_success(status) == status = 0

\* The equality a derived PartialEq would give: the same byte.
Status_eq_Derived(self, other) == self = other

\* Status's PartialEq: two statuses are equal when both are a success or
\* both are not.
Status_eq(self, other) == is_success(self) = is_success(other)

\* What a read_from returns on a live stream: a connection that was reset,
\* or that reached end-of-stream inside a read_exact, is an I/O error.
ReadFrom(dec, eof, reset) ==
    IF reset THEN Failed("IoError", 0, 0)
    ELSE IF dec.st = "Pending" /\ eof THEN Failed("IoError", 0, 0)
    ELSE dec

Drop(buf, n) == SubSeq(buf, n + 1, Len(buf))

Contains(seq, x) == \E i \in 1 .. Len(seq) : seq[i] = x

(***************************************************************************)
(* Results.  A session result is a record: kind names the variant of       *)
(* ServerError or ClientError ("Ok" for success, "none" while running),    *)
(* cause the ConversionError inside Protocol, arg the byte it carries.     *)
(***************************************************************************)
Res(kind, cause, arg) == [kind |-> kind, cause |-> cause, arg |-> arg]
Running == Res("none", "", 0)
OkResult == Res("Ok", "", 0)

\* From<ConversionError> for ServerError / ClientError: an I/O error inside
\* the codec surfaces as Protocol(IoError).
Protocol(d) == Res("Protocol", d.err, d.byte)

(***************************************************************************)
(* Inputs of the model.                                                    *)
(***************************************************************************)
User == <<117>>
Pass == <<112>>
WrongPass == <<113>>
WrongUser == <<118>>

ServerCredentials == { <<User, Pass>> }
\* Credentials one byte longer than the ULEN and PLEN octets can count.
OverlongUser == [i \in 1 .. 256 |-> 117]
OverlongPass == [i \in 1 .. 256 |-> 112]
ClientCredentials ==
    {<<User, Pass>>, <<User, WrongPass>>, <<OverlongUser, Pass>>,
     <<User, OverlongPass>>}

V6Octets == <<0, 0, 0, 0, 0, 0, 0, 0, 0, 0, 0, 0, 0, 0, 0, 1>>

\* Targets a Socks5Client is asked to connect to.
ClientTargets ==
    { <<Ipv4(<<1, 2, 3, 4>>), 80>>,
      <<Domain(<<97>>), 443>>,
      <<Ipv6(V6Octets), 80>> }

\* What a peer that is not this library's client may put on the wire.
RawGreetings ==
    { <<5, 1, 0>>, <<5, 1, 2>>, <<5, 2, 0, 2>>, <<5, 2, 2, 0>>, <<5, 0>>,
      <<5, 1, 1>>, <<4, 1, 0>>, <<5, 2, 0>> }

RawAuthRequests ==
    { EncodeClientAuthenticationRequest(User, Pass),
      EncodeClientAuthenticationRequest(User, WrongPass),
      EncodeClientAuthenticationRequest(WrongUser, Pass),
      <<5, 1, 117, 1, 112>> }

RawRequests ==
    { EncodeRequest(Request(CONNECT, Ipv4(<<1, 2, 3, 4>>), 80)),
      EncodeRequest(Request(CONNECT, Domain(<<97>>), 443)),
      EncodeRequest(Request(CONNECT, Ipv6(V6Octets), 80)),
      EncodeRequest(Request(BIND, Ipv4(UNSPECIFIED), 0)),
      EncodeRequest(Request(UDP_ASSOCIATE, Domain(<<97>>), 443)),
      EncodeRequest(Request(9, Ipv6(V6Octets), 80)),
      <<5, 1, 0, 2, 0, 0>>,
      <<4, 1, 0, 1, 1, 2, 3, 4, 0, 80>> }

Payload == <<170>>
TargetPayload == <<187>>

RawChoices == { <<5, 0>>, <<5, 2>>, <<5, 255>>, <<5, 1>>, <<4, 0>>, <<5>> }

RawAuthResponses == { <<1, 0>>, <<1, 1>>, <<1, 255>>, <<5, 0>> }

RawResponses ==
    { EncodeResponse(Response(REPLY_SUCCESS, Ipv4(<<1, 2, 3, 4>>), 80)),
      EncodeResponse(Response(REPLY_SUCCESS, Domain(<<97>>), 443)),
      EncodeResponse(new_error(HOST_UNREACHABLE)),
      EncodeResponse(new_error(COMMAND_NOT_SUPPORTED)),
      <<5, 0, 0, 2, 0, 0>>,
      <<4, 0, 0, 1, 0, 0, 0, 0, 0, 0>> }

\* The i-th message (counting from 0) a raw client sends.
RawClientChunks(e, i) ==
    IF e = "serve_client"
    THEN CASE i = 0 -> RawGreetings
           [] i = 1 -> RawRequests
                         \cup {EncodeClientAuthenticationRequest(User, Pass)}
           [] OTHER -> {Payload}
    ELSE CASE i = 0 -> RawAuthRequests
                         \cup {EncodeRequest(Request(CONNECT,
                                                     Ipv4(<<1, 2, 3, 4>>), 80))}
           [] i = 1 -> RawRequests
           [] OTHER -> {Payload}

\* The i-th message (counting from 0) a raw server sends.
RawServerChunks(i) ==
    CASE i = 0 -> RawChoices
      [] i = 1 -> RawAuthResponses \cup RawResponses
      [] i = 2 -> RawResponses
      [] OTHER -> {TargetPayload}

(***************************************************************************)
(* State.                                                                  *)
(***************************************************************************)
VARIABLES
    clientKind,      \* "Socks5Client" or "raw": who drives the client end
    serverKind,      \* "Socks5Server" or "raw": who drives the server end
    entry,           \* "serve_client", or "authenticate" when the trait's
                     \* public authenticate/handle_request are called directly
    cliCredentials,  \* Socks5Client.credentials
    target_addr,     \* connect_to_target's target_addr
    target_port,     \* connect_to_target's target_port
    cpc,             \* where connect_to_target stands
    cliResult,       \* what connect_to_target returned
    appSent,         \* payload bytes the caller wrote on the returned stream
    rawSent,         \* messages the raw client has sent
    srvCredentials,  \* Socks5Server.credentials
    spc,             \* where serve_client stands
    auth_method,     \* serve_client's auth_method
    request,         \* the Request handle_request decoded
    srvResult,       \* what serve_client returned
    events,          \* the server's protocol events so far, in order
    rawSrvSent,      \* messages the raw server has sent
    c2s,             \* bytes written by the client, not yet read by the server
    s2c,             \* bytes written by the server, not yet read by the client
    c2sHist,         \* every byte the client wrote
    s2cHist,         \* every byte the server wrote to the client
    cClosed,         \* the client end dropped its stream
    sClosed,         \* the server end dropped its stream
    reset,           \* the client-server connection was reset
    tstate,          \* outbound stream: none, failed, open, eof, reset
    t2s,             \* bytes written by the target, not yet copied
    s2t,             \* bytes the relay wrote to the target
    tWritten,        \* bytes the target has written
    msgKind,         \* codec: the type whose write_to/read_from is exercised
    value,           \* codec: the value handed to write_to
    written,         \* codec: what write_to returned
    wire,            \* codec: the bytes of the stream read_from reads
    wireEof,         \* codec: the stream has ended
    decoded,         \* codec: what read_from (or the Status methods) returned
    listener,        \* Socks5Listener::run: running, or what it returned
    tasks            \* what each spawned session task returned, in
                     \* accept order; Running while it has not returned

codecVars == <<msgKind, value, written, wire, wireEof, decoded>>
lsnVars == <<listener, tasks>>
\* What no step of a session changes: its configuration, and the state of
\* the codec exercise and of the listener, which are not part of a session.
confVars == <<clientKind, serverKind, entry, cliCredentials, srvCredentials,
              target_addr, target_port, codecVars, lsnVars>>
cliVars == <<cpc, cliResult, appSent, rawSent>>
srvVars == <<spc, auth_method, request, srvResult, events, rawSrvSent>>
c2sVars == <<c2s, c2sHist, cClosed>>
s2cVars == <<s2c, s2cHist, sClosed>>
tgtVars == <<tstate, t2s, s2t, tWritten>>
vars == <<confVars, cliVars, srvVars, c2sVars, s2cVars, tgtVars, reset>>

NoRequest == Request(0, Ipv4(UNSPECIFIED), 0)

\* The Socks5Client objects modelled, each with the call made on it: the
\* matching credentials with every target, every other pair of credentials
\* with the first target.
ClientConfigs ==
    ({<<User, Pass>>} \X ClientTargets)
      \cup (ClientCredentials \X {<<Ipv4(<<1, 2, 3, 4>>), 80>>})

\* The deployments modelled: this library's client against this library's
\* server, either of them against an arbitrary peer, and the server's
\* authenticate and handle_request driven directly through the Server trait.
\* A raw client has no Socks5Client object: its credentials and target stay
\* at a fixed value.
Deployments ==
    { <<"Socks5Client", "Socks5Server", "serve_client", NO_AUTHENTICATION>>,
      <<"raw", "Socks5Server", "serve_client", NO_AUTHENTICATION>>,
      <<"Socks5Client", "raw", "serve_client", NO_AUTHENTICATION>>,
      <<"Socks5Client", "Socks5Server", "authenticate", USERNAME_PASSWORD>>,
      <<"raw", "Socks5Server", "authenticate", USERNAME_PASSWORD>>,
      <<"raw", "Socks5Server", "authenticate", NO_AUTHENTICATION>>,
      <<"raw", "Socks5Server", "authenticate", GSSAPI>> }

\* No codec exercise is under way.
CodecIdle ==
    /\ msgKind = "none"
    /\ value = <<>>
    /\ written = "no"
    /\ wire = <<>>
    /\ wireEof = FALSE
    /\ decoded = Pending

\* No listener is running.
ListenerIdle ==
    /\ listener = "none"
    /\ tasks = <<>>

Init ==
    /\ CodecIdle
    /\ ListenerIdle
    /\ \E d \in Deployments :
          /\ clientKind = d[1]
          /\ serverKind = d[2]
          /\ entry = d[3]
          /\ auth_method = d[4]
          /\ cpc = IF d[1] = "raw" THEN "raw"
                   ELSE IF d[3] = "serve_client" THEN "greet"
                   ELSE "auth_write"
          /\ spc = IF d[2] = "raw" THEN "raw"
                   ELSE IF d[3] = "serve_client" THEN "read_greeting"
                   ELSE "authenticate"
    /\ IF clientKind = "raw"
       THEN /\ cliCredentials = <<<<>>, <<>>>>
            /\ target_addr = Ipv4(UNSPECIFIED)
            /\ target_port = 0
       ELSE \E cfg \in ClientConfigs :
               /\ cliCredentials = cfg[1]
               /\ target_addr = cfg[2][1]
               /\ target_port = cfg[2][2]
    /\ srvCredentials \in ServerCredentials
    /\ cliResult = Running
    /\ appSent = 0
    /\ rawSent = 0
    /\ request = NoRequest
    /\ srvResult = Running
    /\ events = <<>>
    /\ rawSrvSent = 0
    /\ c2s = <<>>
    /\ s2c = <<>>
    /\ c2sHist = <<>>
    /\ s2cHist = <<>>
    /\ cClosed = FALSE
    /\ sClosed = FALSE
    /\ reset = FALSE
    /\ tstate = "none"
    /\ t2s = <<>>
    /\ s2t = <<>>
    /\ tWritten = 0

(***************************************************************************)
(* The server session: Server::serve_client and what it calls.             *)
(***************************************************************************)
IoFailure == Res("Protocol", "IoError", 0)

\* The session returns res; serve_client consumed self, so the client stream
\* is dropped.
SrvReturn(res) ==
    /\ srvResult' = res
    /\ spc' = "done"
    /\ sClosed' = TRUE

\* write_to on the client stream succeeded with these bytes.
SrvWrite(bytes) ==
    /\ s2c' = s2c \o bytes
    /\ s2cHist' = s2cHist \o bytes

\* A perform_handshake that selects USERNAME_PASSWORD when it is offered,
\* and NO_AUTHENTICATION after that.
SrvReadGreeting_PreferPassword ==
    /\ spc = "read_greeting"
    /\ LET r == ReadFrom(DecodeClientGreeting(c2s), cClosed, reset) IN
       /\ r.st # "Pending"
       /\ c2s' = Drop(c2s, r.used)
       /\ IF r.st = "Err"
          THEN /\ SrvReturn(Protocol(r))
               /\ UNCHANGED <<auth_method, events>>
          ELSE IF Contains(r.val, USERNAME_PASSWORD)
                    \/ Contains(r.val, NO_AUTHENTICATION)
          THEN /\ auth_method' = IF Contains(r.val, USERNAME_PASSWORD)
                                 THEN USERNAME_PASSWORD
                                 ELSE NO_AUTHENTICATION
               /\ spc' = "write_choice"
               /\ events' = Append(events, "greeting_read")
               /\ UNCHANGED <<srvResult, sClosed>>
          ELSE /\ SrvReturn(Res("NoAcceptableAuthMethods", "", 0))
               /\ events' = Append(events, "greeting_read")
               /\ UNCHANGED auth_method
    /\ UNCHANGED <<confVars, cliVars, request, rawSrvSent, c2sHist, cClosed,
                   s2c, s2cHist, tgtVars, reset>>

\* Server::perform_handshake, up to the choice of the method: read the
\* greeting; NO_AUTHENTICATION if it is offered, otherwise the error is
\* returned at once.
SrvReadGreeting ==
    /\ spc = "read_greeting"
    /\ LET r == ReadFrom(DecodeClientGreeting(c2s), cClosed, reset) IN
       /\ r.st # "Pending"
       /\ c2s' = Drop(c2s, r.used)
       /\ IF r.st = "Err"
          THEN /\ SrvReturn(Protocol(r))
               /\ UNCHANGED <<auth_method, events>>
          ELSE IF Contains(r.val, NO_AUTHENTICATION)
          THEN /\ auth_method' = NO_AUTHENTICATION
               /\ spc' = "write_choice"
               /\ events' = Append(events, "greeting_read")
               /\ UNCHANGED <<srvResult, sClosed>>
          ELSE /\ SrvReturn(Res("NoAcceptableAuthMethods", "", 0))
               /\ events' = Append(events, "greeting_read")
               /\ UNCHANGED auth_method
    /\ UNCHANGED <<confVars, cliVars, request, rawSrvSent, c2sHist, cClosed,
                   s2c, s2cHist, tgtVars, reset>>

\* Server::perform_handshake, the rest: write the ServerChoice.
SrvWriteChoice ==
    /\ spc = "write_choice"
    /\ IF reset
       THEN /\ SrvReturn(IoFailure)
            /\ UNCHANGED <<s2c, s2cHist, events>>
       ELSE /\ SrvWrite(EncodeServerChoice(auth_method))
            /\ spc' = "authenticate"
            /\ events' = Append(events, "choice_written")
            /\ UNCHANGED <<srvResult, sClosed>>
    /\ UNCHANGED <<confVars, cliVars, auth_method, request, rawSrvSent,
                   c2sVars, tgtVars, reset>>

\* default_authenticate_impl.
default_authenticate_impl(method) ==
    IF method = NO_AUTHENTICATION THEN OkResult
    ELSE Res("NoAcceptableAuthMethods", "", 0)

\* The comparison of Socks5Server::authenticate.
CredentialsMatch(username, password, credentials) ==
    ~ (username # credentials[1] \/ password # credentials[2])

\* An authenticate whose default branch lets the session go on whatever
\* default_authenticate_impl returned.
SrvAuthenticate_IgnoreDefault ==
    /\ spc = "authenticate"
    /\ IF auth_method = USERNAME_PASSWORD
       THEN LET r == ReadFrom(DecodeClientAuthenticationRequest(c2s),
                              cClosed, reset) IN
            /\ r.st # "Pending"
            /\ c2s' = Drop(c2s, r.used)
            /\ IF r.st = "Err"
               THEN /\ SrvReturn(Protocol(r))
                    /\ UNCHANGED events
               ELSE /\ events' = Append(events, "subnegotiation")
                    /\ IF CredentialsMatch(r.val[1], r.val[2], srvCredentials)
                       THEN /\ spc' = "read_request"
                            /\ UNCHANGED <<srvResult, sClosed>>
                       ELSE SrvReturn(Res("AuthenticationFailed", "", 0))
       ELSE /\ spc' = "read_request"
            /\ UNCHANGED <<srvResult, sClosed, c2s, events>>
    /\ UNCHANGED <<confVars, cliVars, auth_method, request, rawSrvSent,
                   c2sHist, cClosed, s2c, s2cHist, tgtVars, reset>>

\* Socks5Server::authenticate.
SrvAuthenticate ==
    /\ spc = "authenticate"
    /\ IF auth_method = USERNAME_PASSWORD
       THEN LET r == ReadFrom(DecodeClientAuthenticationRequest(c2s),
                              cClosed, reset) IN
            /\ r.st # "Pending"
            /\ c2s' = Drop(c2s, r.used)
            /\ IF r.st = "Err"
               THEN /\ SrvReturn(Protocol(r))
                    /\ UNCHANGED events
               ELSE /\ events' = Append(events, "subnegotiation")
                    /\ IF CredentialsMatch(r.val[1], r.val[2], srvCredentials)
                       THEN /\ spc' = "read_request"
                            /\ UNCHANGED <<srvResult, sClosed>>
                       ELSE SrvReturn(Res("AuthenticationFailed", "", 0))
       ELSE /\ IF default_authenticate_impl(auth_method) = OkResult
               THEN /\ spc' = "read_request"
                    /\ UNCHANGED <<srvResult, sClosed>>
               ELSE SrvReturn(default_authenticate_impl(auth_method))
            /\ UNCHANGED <<c2s, events>>
    /\ UNCHANGED <<confVars, cliVars, auth_method, request, rawSrvSent,
                   c2sHist, cClosed, s2c, s2cHist, tgtVars, reset>>

\* A dispatch that lets BIND through to handle_connect.
AfterRequest_BindAsConnect(command) ==
    IF command \in {CONNECT, BIND} THEN "connect" ELSE "write_unsupported"

\* default_handle_request_impl: the dispatch on the command.
AfterRequest(command) ==
    IF command = CONNECT THEN "connect" ELSE "write_unsupported"

\* A handle_request that answers a Request it could not decode with an
\* error Response before it returns the error.
SrvReadRequest_ReplyOnError ==
    /\ spc = "read_request"
    /\ LET r == ReadFrom(DecodeRequest(c2s), cClosed, reset) IN
       /\ r.st # "Pending"
       /\ c2s' = Drop(c2s, r.used)
       /\ IF r.st = "Err"
          THEN /\ SrvReturn(Protocol(r))
               /\ SrvWrite(EncodeResponse(RESPONSE_UNSUPPORTED_COMMAND))
               /\ UNCHANGED <<request, events>>
          ELSE /\ request' = r.val
               /\ spc' = AfterRequest(r.val.command)
               /\ events' = Append(events, "request_read")
               /\ UNCHANGED <<srvResult, sClosed, s2c, s2cHist>>
    /\ UNCHANGED <<confVars, cliVars, auth_method, rawSrvSent, c2sHist,
                   cClosed, tgtVars, reset>>

\* default_handle_request_impl, up to the dispatch: read the Request.
SrvReadRequest ==
    /\ spc = "read_request"
    /\ LET r == ReadFrom(DecodeRequest(c2s), cClosed, reset) IN
       /\ r.st # "Pending"
       /\ c2s' = Drop(c2s, r.used)
       /\ IF r.st = "Err"
          THEN /\ SrvReturn(Protocol(r))
               /\ UNCHANGED <<request, events>>
          ELSE /\ request' = r.val
               /\ spc' = AfterRequest(r.val.command)
               /\ events' = Append(events, "request_read")
               /\ UNCHANGED <<srvResult, sClosed>>
    /\ UNCHANGED <<confVars, cliVars, auth_method, rawSrvSent, c2sHist,
                   cClosed, s2c, s2cHist, tgtVars, reset>>

\* default_handle_request_impl, the branch of an unsupported command.
SrvWriteUnsupported ==
    /\ spc = "write_unsupported"
    /\ IF reset
       THEN /\ SrvReturn(IoFailure)
            /\ UNCHANGED <<s2c, s2cHist, events>>
       ELSE /\ SrvWrite(EncodeResponse(RESPONSE_UNSUPPORTED_COMMAND))
            /\ SrvReturn(Res("CommandNotSupported", "", request.command))
            /\ events' = Append(events, "response_written")
    /\ UNCHANGED <<confVars, cliVars, auth_method, request, rawSrvSent,
                   c2sVars, tgtVars, reset>>

\* A handle_connect that does not look at the outcome of the connect.
AfterConnect_IgnoreFailure(connected) == "write_success"

\* Socks5Server::handle_connect: where the outcome of TcpStream::connect
\* leads.
AfterConnect(connected) ==
    IF connected THEN "write_success" ELSE "write_unreachable"

\* Socks5Server::handle_connect: the outbound connect, for each of the three
\* address variants; it succeeds or fails as the network decides.
SrvConnect ==
    /\ spc = "connect"
    /\ \E connected \in BOOLEAN :
          /\ tstate' = IF connected THEN "open" ELSE "failed"
          /\ spc' = AfterConnect(connected)
    /\ UNCHANGED <<confVars, cliVars, auth_method, request, srvResult, events,
                   rawSrvSent, c2sVars, s2cVars, t2s, s2t, tWritten, reset>>

\* A failed connect answered by handle_connect and once more by its caller.
SrvWriteUnreachable_Twice ==
    /\ spc = "write_unreachable"
    /\ IF reset
       THEN /\ SrvReturn(IoFailure)
            /\ UNCHANGED <<s2c, s2cHist, events>>
       ELSE /\ SrvWrite(EncodeResponse(RESPONSE_HOST_UNREACHABLE)
                          \o EncodeResponse(RESPONSE_HOST_UNREACHABLE))
            /\ SrvReturn(Res("RequestFailed", "", HOST_UNREACHABLE))
            /\ events' = Append(events, "response_written")
    /\ UNCHANGED <<confVars, cliVars, auth_method, request, rawSrvSent,
                   c2sVars, tgtVars, reset>>

\* Socks5Server::handle_connect, the branch of a failed connect.
SrvWriteUnreachable ==
    /\ spc = "write_unreachable"
    /\ IF reset
       THEN /\ SrvReturn(IoFailure)
            /\ UNCHANGED <<s2c, s2cHist, events>>
       ELSE /\ SrvWrite(EncodeResponse(RESPONSE_HOST_UNREACHABLE))
            /\ SrvReturn(Res("RequestFailed", "", HOST_UNREACHABLE))
            /\ events' = Append(events, "response_written")
    /\ UNCHANGED <<confVars, cliVars, auth_method, request, rawSrvSent,
                   c2sVars, tgtVars, reset>>

\* A SUCCESS Response with the zeroed endpoint of the error replies.
SuccessResponse_Zeroed(req) == Response(REPLY_SUCCESS, Ipv4(UNSPECIFIED), 0)

\* Socks5Server::handle_connect: the Response of a successful connect.
SuccessResponse(req) == Response(REPLY_SUCCESS, req.address, req.port)

\* A handle_connect that starts the relay without having written the
\* Response.
SrvWriteSuccess_RelayFirst ==
    /\ spc = "write_success"
    /\ spc' = "relay"
    /\ events' = Append(events, "relay_started")
    /\ UNCHANGED <<confVars, cliVars, auth_method, request, srvResult,
                   rawSrvSent, c2sVars, s2cVars, tgtVars, reset>>

\* Socks5Server::handle_connect: write the SUCCESS Response, then split the
\* streams and start the two copies.
SrvWriteSuccess ==
    /\ spc = "write_success"
    /\ IF reset
       THEN /\ SrvReturn(IoFailure)
            /\ UNCHANGED <<s2c, s2cHist, events>>
       ELSE /\ SrvWrite(EncodeResponse(SuccessResponse(request)))
            /\ spc' = "relay"
            /\ events' = events \o <<"response_written", "relay_started">>
            /\ UNCHANGED <<srvResult, sClosed>>
    /\ UNCHANGED <<confVars, cliVars, auth_method, request, rawSrvSent,
                   c2sVars, tgtVars, reset>>

\* tokio::io::copy(client_reader, target_writer): one round of read and
\* write_all.
CopyClientToTarget ==
    /\ spc = "relay"
    /\ ~ reset
    /\ tstate \in {"open", "eof"}
    /\ c2s # <<>>
    /\ s2t' = s2t \o c2s
    /\ c2s' = <<>>
    /\ UNCHANGED <<confVars, cliVars, srvVars, c2sHist, cClosed, s2cVars,
                   tstate, t2s, tWritten, reset>>

\* tokio::io::copy(target_reader, client_writer): one round of read and
\* write_all.
CopyTargetToClient ==
    /\ spc = "relay"
    /\ ~ reset
    /\ tstate \in {"open", "eof"}
    /\ t2s # <<>>
    /\ SrvWrite(t2s)
    /\ t2s' = <<>>
    /\ UNCHANGED <<confVars, cliVars, srvVars, c2sVars, sClosed,
                   tstate, s2t, tWritten, reset>>

\* The client_to_target copy completed: end of the client's stream, or an
\* error on either stream.
client_to_target_done ==
    \/ reset
    \/ cClosed /\ c2s = <<>>
    \/ tstate = "reset" /\ c2s # <<>>

\* The target_to_client copy completed: end of the target's stream, or an
\* error on either stream.
target_to_client_done ==
    \/ tstate = "reset"
    \/ tstate = "eof" /\ t2s = <<>>
    \/ reset /\ t2s # <<>>

\* A join in place of the select!: both copies have to complete.
SelectCompleted_Join(a, b) == a /\ b

\* tokio::select! over the two copies: the first to complete ends the wait.
SelectCompleted(a, b) == a \/ b

\* A handle_connect that returns the I/O error of the copy that ended the
\* relay.
RelayFinish_SurfaceError ==
    /\ spc = "relay"
    /\ SelectCompleted(client_to_target_done, target_to_client_done)
    /\ SrvReturn(IF reset \/ tstate = "reset" THEN IoFailure ELSE OkResult)
    /\ UNCHANGED <<confVars, cliVars, auth_method, request, events, rawSrvSent,
                   c2sVars, s2c, s2cHist, tgtVars, reset>>

\* Socks5Server::handle_connect: the select! returns, both streams are
\* dropped and the session returns Ok(()).
RelayFinish ==
    /\ spc = "relay"
    /\ SelectCompleted(client_to_target_done, target_to_client_done)
    /\ SrvReturn(OkResult)
    /\ UNCHANGED <<confVars, cliVars, auth_method, request, events, rawSrvSent,
                   c2sVars, s2c, s2cHist, tgtVars, reset>>

(***************************************************************************)
(* The client session: Socks5Client::connect_to_target and what it calls.  *)
(***************************************************************************)
CliIoFailure == Res("Protocol", "IoError", 0)

\* connect_to_target returns an error; self, and the stream in it, is
\* dropped.
CliFail(res) ==
    /\ cliResult' = res
    /\ cpc' = "done"
    /\ cClosed' = TRUE

\* write_to on the stream succeeded with these bytes.
CliWrite(bytes) ==
    /\ c2s' = c2s \o bytes
    /\ c2sHist' = c2sHist \o bytes

\* The methods Socks5Client::connect_to_target offers.
OfferedMethods == <<NO_AUTHENTICATION, USERNAME_PASSWORD>>

\* Client::perform_handshake, the first half: write the greeting.
CliWriteGreeting ==
    /\ cpc = "greet"
    /\ IF reset
       THEN /\ CliFail(CliIoFailure)
            /\ UNCHANGED <<c2s, c2sHist>>
       ELSE /\ CliWrite(EncodeClientGreeting(OfferedMethods))
            /\ cpc' = "read_choice"
            /\ UNCHANGED <<cliResult, cClosed>>
    /\ UNCHANGED <<confVars, appSent, rawSent, srvVars, s2cVars, tgtVars,
                   reset>>

\* A match that takes every method it has no branch for as "no
\* authentication required".
AfterChoice_AcceptUnknown(choice) ==
    CASE choice = USERNAME_PASSWORD -> "auth_write"
      [] OTHER -> "req_write"

\* A match that runs the sub-negotiation whatever the server chose.
AfterChoice_AlwaysAuth(choice) ==
    CASE choice = NO_AUTHENTICATION -> "auth_write"
      [] choice = USERNAME_PASSWORD -> "auth_write"
      [] OTHER -> "unsupported"

\* Socks5Client::connect_to_target: the match on the server's choice.
AfterChoice(choice) ==
    CASE choice = NO_AUTHENTICATION -> "req_write"
      [] choice = USERNAME_PASSWORD -> "auth_write"
      [] OTHER -> "unsupported"

\* Client::perform_handshake, the second half, and the match on the choice.
CliReadChoice ==
    /\ cpc = "read_choice"
    /\ LET r == ReadFrom(DecodeServerChoice(s2c), sClosed, reset) IN
       /\ r.st # "Pending"
       /\ s2c' = Drop(s2c, r.used)
       /\ IF r.st = "Err"
          THEN CliFail(Protocol(r))
          ELSE IF AfterChoice(r.val) = "unsupported"
          THEN CliFail(Res("UnsupportedAuthMethod", "", r.val))
          ELSE /\ cpc' = AfterChoice(r.val)
               /\ UNCHANGED <<cliResult, cClosed>>
    /\ UNCHANGED <<confVars, appSent, rawSent, srvVars, c2s, c2sHist,
                   s2cHist, sClosed, tgtVars, reset>>

\* username_password_auth_impl, the first half: write the credentials.
CliAuthWrite ==
    /\ cpc = "auth_write"
    /\ IF reset
       THEN /\ CliFail(CliIoFailure)
            /\ UNCHANGED <<c2s, c2sHist>>
       ELSE /\ CliWrite(EncodeClientAuthenticationRequest(cliCredentials[1],
                                                          cliCredentials[2]))
            /\ cpc' = "auth_read"
            /\ UNCHANGED <<cliResult, cClosed>>
    /\ UNCHANGED <<confVars, appSent, rawSent, srvVars, s2cVars, tgtVars,
                   reset>>

\* username_password_auth_impl, the second half: read the ServerResponse.
CliAuthRead ==
    /\ cpc = "auth_read"
    /\ LET r == ReadFrom(DecodeServerResponse(s2c), sClosed, reset) IN
       /\ r.st # "Pending"
       /\ s2c' = Drop(s2c, r.used)
       /\ IF r.st = "Err"
          THEN CliFail(Protocol(r))
          ELSE IF is_failure(r.val)
          THEN CliFail(Res("AuthenticationFailed", "", 0))
          ELSE /\ cpc' = "req_write"
               /\ UNCHANGED <<cliResult, cClosed>>
    /\ UNCHANGED <<confVars, appSent, rawSent, srvVars, c2s, c2sHist,
                   s2cHist, sClosed, tgtVars, reset>>

\* Client::send_connect_request, the first half: write the Request.
CliWriteRequest ==
    /\ cpc = "req_write"
    /\ IF reset
       THEN /\ CliFail(CliIoFailure)
            /\ UNCHANGED <<c2s, c2sHist>>
       ELSE /\ CliWrite(EncodeRequest(Request(CONNECT, target_addr,
                                              target_port)))
            /\ cpc' = "req_read"
            /\ UNCHANGED <<cliResult, cClosed>>
    /\ UNCHANGED <<confVars, appSent, rawSent, srvVars, s2cVars, tgtVars,
                   reset>>

\* A send_connect_request that hands the stream back on every Response it
\* could decode, whatever the reply code.
CliReadResponse_AnyReply ==
    /\ cpc = "req_read"
    /\ LET r == ReadFrom(DecodeResponse(s2c), sClosed, reset) IN
       /\ r.st # "Pending"
       /\ s2c' = Drop(s2c, r.used)
       /\ IF r.st = "Err"
          THEN CliFail(Protocol(r))
          ELSE /\ cliResult' = OkResult
               /\ cpc' = "done"
               /\ UNCHANGED cClosed
    /\ UNCHANGED <<confVars, appSent, rawSent, srvVars, c2s, c2sHist,
                   s2cHist, sClosed, tgtVars, reset>>

\* Client::send_connect_request, the second half, and the return of the
\* stream by connect_to_target.
CliReadResponse ==
    /\ cpc = "req_read"
    /\ LET r == ReadFrom(DecodeResponse(s2c), sClosed, reset) IN
       /\ r.st # "Pending"
       /\ s2c' = Drop(s2c, r.used)
       /\ IF r.st = "Err"
          THEN CliFail(Protocol(r))
          ELSE IF r.val.reply # REPLY_SUCCESS
          THEN CliFail(Res("RequestFailed", "", r.val.reply))
          ELSE /\ cliResult' = OkResult
               /\ cpc' = "done"
               /\ UNCHANGED cClosed
    /\ UNCHANGED <<confVars, appSent, rawSent, srvVars, c2s, c2sHist,
                   s2cHist, sClosed, tgtVars, reset>>

\* The caller of connect_to_target writes application data on the stream it
\* got back.
AppWrite ==
    /\ cliResult = OkResult
    /\ ~ cClosed
    /\ ~ reset
    /\ appSent < MaxAppBytes
    /\ CliWrite(Payload)
    /\ appSent' = appSent + 1
    /\ UNCHANGED <<confVars, cpc, cliResult, rawSent, srvVars, cClosed,
                   s2cVars, tgtVars, reset>>

\* The caller of connect_to_target drops the stream it got back.
AppClose ==
    /\ cliResult = OkResult
    /\ ~ cClosed
    /\ cClosed' = TRUE
    /\ UNCHANGED <<confVars, cliVars, srvVars, c2s, c2sHist, s2cVars, tgtVars,
                   reset>>

(***************************************************************************)
(* Peers that are not this library, the target and the network.            *)
(***************************************************************************)
RawClientSend ==
    /\ clientKind = "raw"
    /\ ~ cClosed
    /\ ~ reset
    /\ rawSent < MaxRawSends
    /\ \E chunk \in RawClientChunks(entry, rawSent) : CliWrite(chunk)
    /\ rawSent' = rawSent + 1
    /\ UNCHANGED <<confVars, cpc, cliResult, appSent, srvVars, cClosed,
                   s2cVars, tgtVars, reset>>

RawClientClose ==
    /\ clientKind = "raw"
    /\ ~ cClosed
    /\ cClosed' = TRUE
    /\ UNCHANGED <<confVars, cliVars, srvVars, c2s, c2sHist, s2cVars, tgtVars,
                   reset>>

RawServerSend ==
    /\ serverKind = "raw"
    /\ ~ sClosed
    /\ ~ reset
    /\ rawSrvSent < MaxRawSends
    /\ \E chunk \in RawServerChunks(rawSrvSent) : SrvWrite(chunk)
    /\ rawSrvSent' = rawSrvSent + 1
    /\ UNCHANGED <<confVars, cliVars, spc, auth_method, request, srvResult,
                   events, c2sVars, sClosed, tgtVars, reset>>

RawServerClose ==
    /\ serverKind = "raw"
    /\ ~ sClosed
    /\ sClosed' = TRUE
    /\ UNCHANGED <<confVars, cliVars, srvVars, c2sVars, s2c, s2cHist, tgtVars,
                   reset>>

\* The target writes on the outbound stream.
TargetWrite ==
    /\ spc \in {"write_success", "relay"}
    /\ tstate = "open"
    /\ tWritten < MaxTargetBytes
    /\ t2s' = t2s \o TargetPayload
    /\ tWritten' = tWritten + 1
    /\ UNCHANGED <<confVars, cliVars, srvVars, c2sVars, s2cVars, tstate, s2t,
                   reset>>

\* The target closes its end cleanly.
TargetClose ==
    /\ spc \in {"write_success", "relay"}
    /\ tstate = "open"
    /\ tstate' = "eof"
    /\ UNCHANGED <<confVars, cliVars, srvVars, c2sVars, s2cVars, t2s, s2t,
                   tWritten, reset>>

\* The outbound connection breaks.
TargetReset ==
    /\ spc \in {"write_success", "relay"}
    /\ tstate \in {"open", "eof"}
    /\ tstate' = "reset"
    /\ UNCHANGED <<confVars, cliVars, srvVars, c2sVars, s2cVars, t2s, s2t,
                   tWritten, reset>>

\* The connection between client and server breaks.
StreamReset ==
    /\ ~ reset
    /\ ~ cClosed
    /\ ~ sClosed
    /\ reset' = TRUE
    /\ UNCHANGED <<confVars, cliVars, srvVars, c2sVars, s2cVars, tgtVars>>

Next ==
    \/ SrvReadGreeting
    \/ SrvWriteChoice
    \/ SrvAuthenticate
    \/ SrvReadRequest
    \/ SrvWriteUnsupported
    \/ SrvConnect
    \/ SrvWriteUnreachable
    \/ SrvWriteSuccess
    \/ CopyClientToTarget
    \/ CopyTargetToClient
    \/ RelayFinish
    \/ CliWriteGreeting
    \/ CliReadChoice
    \/ CliAuthWrite
    \/ CliAuthRead
    \/ CliWriteRequest
    \/ CliReadResponse
    \/ AppWrite
    \/ AppClose
    \/ RawClientSend
    \/ RawClientClose
    \/ RawServerSend
    \/ RawServerClose
    \/ TargetWrite
    \/ TargetClose
    \/ TargetReset
    \/ StreamReset

Spec == Init /\ [][Next]_vars

(***************************************************************************)
(* Scheduling.  Each session is a task of the async runtime: a step of the *)
(* client or of the server that stays possible is eventually taken, and    *)
(* select! polls both copies.  Raw peers, the target, the caller of the    *)
(* client and the network are under no obligation.                         *)
(***************************************************************************)
ServerStep ==
    \/ SrvReadGreeting
    \/ SrvWriteChoice
    \/ SrvAuthenticate
    \/ SrvReadRequest
    \/ SrvWriteUnsupported
    \/ SrvConnect
    \/ SrvWriteUnreachable
    \/ SrvWriteSuccess

ClientStep ==
    \/ CliWriteGreeting
    \/ CliReadChoice
    \/ CliAuthWrite
    \/ CliAuthRead
    \/ CliWriteRequest
    \/ CliReadResponse

FairSpec ==
    /\ Spec
    /\ WF_vars(ServerStep)
    /\ WF_vars(ClientStep)
    /\ WF_vars(CopyClientToTarget)
    /\ WF_vars(CopyTargetToClient)
    /\ WF_vars(RelayFinish)

\* No session is under way.
SessionIdle ==
    /\ clientKind = "none"
    /\ serverKind = "none"
    /\ entry = "none"
    /\ auth_method = NO_AUTHENTICATION
    /\ cpc = "off"
    /\ spc = "off"
    /\ cliCredentials = <<<<>>, <<>>>>
    /\ target_addr = Ipv4(UNSPECIFIED)
    /\ target_port = 0
    /\ srvCredentials = <<<<>>, <<>>>>
    /\ cliResult = Running
    /\ appSent = 0
    /\ rawSent = 0
    /\ request = NoRequest
    /\ srvResult = Running
    /\ events = <<>>
    /\ rawSrvSent = 0
    /\ c2s = <<>>
    /\ s2c = <<>>
    /\ c2sHist = <<>>
    /\ s2cHist = <<>>
    /\ cClosed = FALSE
    /\ sClosed = FALSE
    /\ reset = FALSE
    /\ tstate = "none"
    /\ t2s = <<>>
    /\ s2t = <<>>
    /\ tWritten = 0

sessionVars == <<clientKind, serverKind, entry, cliCredentials,
                 srvCredentials, target_addr, target_port, cliVars, srvVars,
                 c2sVars, s2cVars, tgtVars, reset>>

(***************************************************************************)
(* The codec on its own: one value is handed to its type's write_to, the   *)
(* bytes land on a stream that a peer may extend and end, and the type's   *)
(* read_from reads that stream; or the stream holds a peer's bytes only.   *)
(***************************************************************************)
MaxTrailing == 1

MessageKinds ==
    {"ClientGreeting", "ServerChoice", "Request", "Response",
     "ClientAuthenticationRequest", "ServerResponse"}
CodecKinds == MessageKinds \cup {"Address"}

\* A domain of n bytes, none of them special to anyone.
DomainOfLength(n) == [i \in 1 .. n |-> (n + 31 * i) % 256]

SampleMethodLists ==
    {<<>>, <<0>>, <<0, 2>>, <<2, 1, 0>>, <<255>>, [i \in 1 .. 255 |-> i],
     [i \in 1 .. 256 |-> 2]}
SampleAddresses ==
    {Ipv4(<<1, 2, 3, 4>>), Ipv4(UNSPECIFIED), Ipv4(<<255, 255, 255, 255>>),
     Ipv6(V6Octets), Ipv6([i \in 1 .. 16 |-> 255]), Domain(<<>>),
     Domain(<<97>>), Domain(<<0, 255>>), Domain(DomainOfLength(255)),
     Domain(DomainOfLength(256))}
AllDomains == {Domain(DomainOfLength(n)) : n \in 0 .. 257}
SamplePorts == {0, 80, 256, 65535}
SampleCommands == {CONNECT, BIND, UDP_ASSOCIATE, 255}
SampleReplies == {REPLY_SUCCESS, HOST_UNREACHABLE, COMMAND_NOT_SUPPORTED, 255}
SampleUsernames == {<<>>, User, [i \in 1 .. 255 |-> 117], OverlongUser}
SamplePasswords == {<<>>, Pass, [i \in 1 .. 255 |-> 112], OverlongPass}
SampleStatuses == {0, 1, 2, 255}
TrailingBytes == {0, 5}

CodecValues(kind) ==
    CASE kind = "ClientGreeting" -> SampleMethodLists
      [] kind = "ServerChoice" -> Byte
      [] kind = "Request" ->
           {Request(c, a, p) : c \in SampleCommands, a \in SampleAddresses,
                               p \in SamplePorts}
      [] kind = "Response" ->
           {Response(r, a, p) : r \in SampleReplies, a \in SampleAddresses,
                                p \in SamplePorts}
      [] kind = "ClientAuthenticationRequest" ->
           SampleUsernames \X SamplePasswords
      [] kind = "ServerResponse" -> Byte
      [] kind = "Address" -> SampleAddresses \cup AllDomains

\* write_to of each type.
Encode(kind, v) ==
    CASE kind = "ClientGreeting" -> EncodeClientGreeting(v)
      [] kind = "ServerChoice" -> EncodeServerChoice(v)
      [] kind = "Request" -> EncodeRequest(v)
      [] kind = "Response" -> EncodeResponse(v)
      [] kind = "ClientAuthenticationRequest" ->
           EncodeClientAuthenticationRequest(v[1], v[2])
      [] kind = "ServerResponse" -> EncodeServerResponse(v)
      [] kind = "Address" -> EncodeAddress(v)

\* read_from of each type.
Decode(kind, buf) ==
    CASE kind = "ClientGreeting" -> DecodeClientGreeting(buf)
      [] kind = "ServerChoice" -> DecodeServerChoice(buf)
      [] kind = "Request" -> DecodeRequest(buf)
      [] kind = "Response" -> DecodeResponse(buf)
      [] kind = "ClientAuthenticationRequest" ->
           DecodeClientAuthenticationRequest(buf)
      [] kind = "ServerResponse" -> DecodeServerResponse(buf)
      [] kind = "Address" -> DecodeAddress(buf, 0)

\* Four exercises: a value to encode and read back; a stream that starts
\* with an arbitrary byte from a peer; a peer's Request or Response up to an
\* arbitrary address tag; three statuses to classify and compare.
CodecInit ==
    /\ SessionIdle
    /\ ListenerIdle
    /\ wireEof = FALSE
    /\ decoded = Pending
    /\ \/ /\ msgKind \in CodecKinds
          /\ value \in CodecValues(msgKind)
          /\ written = "no"
          /\ wire = <<>>
       \/ /\ msgKind \in CodecKinds
          /\ value = <<>>
          /\ written = "raw"
          /\ \E b \in Byte : wire = <<b>>
       \/ /\ msgKind \in {"Request", "Response"}
          /\ value = <<>>
          /\ written = "raw"
          /\ \E code \in {0, 1}, tag \in Byte : wire = <<VERSION, code, 0, tag>>
       \/ /\ msgKind = "Status"
          /\ value \in Byte \X SampleStatuses \X SampleStatuses
          /\ written = "raw"
          /\ wire = <<>>

\* The bytes on the stream that no write_to of the exercise put there,
\* the first byte of a peer's stream apart.
Trailing ==
    IF written = "Ok" THEN Len(wire) - Len(Encode(msgKind, value))
    ELSE Len(wire) - 1

\* Encoder::write_to on a stream that takes every byte: it returns Ok(()).
CodecWriteTo ==
    /\ msgKind \in CodecKinds
    /\ written = "no"
    /\ wire' = wire \o Encode(msgKind, value)
    /\ written' = "Ok"
    /\ UNCHANGED <<msgKind, value, wireEof, decoded, sessionVars, lsnVars>>

CodecPeerWrite ==
    /\ msgKind \in CodecKinds
    /\ written # "no"
    /\ ~wireEof
    /\ decoded.st = "Pending"
    /\ Trailing < MaxTrailing
    /\ \E b \in TrailingBytes : wire' = Append(wire, b)
    /\ UNCHANGED <<msgKind, value, written, wireEof, decoded, sessionVars,
                   lsnVars>>

CodecPeerClose ==
    /\ msgKind \in CodecKinds
    /\ written # "no"
    /\ ~wireEof
    /\ decoded.st = "Pending"
    /\ wireEof' = TRUE
    /\ UNCHANGED <<msgKind, value, written, wire, decoded, sessionVars,
                   lsnVars>>

\* Decoder::read_from: it returns once the bytes it asks for are there, or
\* the stream ended inside a read_exact.
CodecReadFrom ==
    /\ msgKind \in CodecKinds
    /\ written # "no"
    /\ decoded.st = "Pending"
    /\ LET r == ReadFrom(Decode(msgKind, wire), wireEof, FALSE) IN
       /\ r.st # "Pending"
       /\ decoded' = r
    /\ UNCHANGED <<msgKind, value, written, wire, wireEof, sessionVars,
                   lsnVars>>

\* Status::is_success, Status::is_failure and == on the three statuses.
StatusVerdicts(a, b, c) ==
    [is_success |-> is_success(a), is_failure |-> is_failure(a),
     ab |-> Status_eq(a, b), ba |-> Status_eq(b, a),
     bc |-> Status_eq(b, c), ac |-> Status_eq(a, c),
     aa |-> Status_eq(a, a)]

CodecStatus ==
    /\ msgKind = "Status"
    /\ decoded.st = "Pending"
    /\ decoded' = Decoded(StatusVerdicts(value[1], value[2], value[3]), 0)
    /\ UNCHANGED <<msgKind, value, written, wire, wireEof, sessionVars,
                   lsnVars>>

CodecNext ==
    \/ CodecWriteTo
    \/ CodecPeerWrite
    \/ CodecPeerClose
    \/ CodecReadFrom
    \/ CodecStatus

CodecSpec == CodecInit /\ [][CodecNext]_vars

(***************************************************************************)
(* Socks5Listener::run: the accept loop and the session tasks it spawns.   *)
(* What one session does on its stream is the subject of Spec; here a task *)
(* is its serve_client call, which returns one of its results or never     *)
(* returns.                                                                *)
(***************************************************************************)
MaxSessions == 3

\* What serve_client can return: Ok(()), or one of the ServerErrors.
SessionOutcomes ==
    {OkResult, IoFailure, Res("Protocol", "InvalidProtocolVersion", 4),
     Res("Protocol", "MalformedMessage", 0),
     Res("NoAcceptableAuthMethods", "", 0), Res("AuthenticationFailed", "", 0),
     Res("CommandNotSupported", "", BIND),
     Res("RequestFailed", "", HOST_UNREACHABLE)}

ListenerInit ==
    /\ SessionIdle
    /\ CodecIdle
    /\ listener = "accept"
    /\ tasks = <<>>

\* self.listener.accept().await?: a connection arrives, or accept fails and
\* run returns that error.
LsnAccept ==
    /\ listener = "accept"
    /\ \/ /\ Len(tasks) < MaxSessions
          /\ listener' = "spawn"
       \/ listener' = "returned"
    /\ UNCHANGED <<tasks, sessionVars, codecVars>>

\* tokio::spawn of the session: the task starts and the loop goes round.
LsnSpawn ==
    /\ listener = "spawn"
    /\ tasks' = Append(tasks, Running)
    /\ listener' = "accept"
    /\ UNCHANGED <<sessionVars, codecVars>>

\* A session whose error comes back into the accept loop, as with
\* serve_client().await? in the loop body.
TaskReturn_Propagate(i, res) ==
    /\ i \in 1 .. Len(tasks)
    /\ tasks[i] = Running
    /\ tasks' = [tasks EXCEPT ![i] = res]
    /\ listener' = IF res = OkResult THEN listener ELSE "returned"
    /\ UNCHANGED <<sessionVars, codecVars>>

\* let _ = Socks5Server::new(stream, creds).serve_client().await; the task
\* ends and its result is dropped.
TaskReturn(i, res) ==
    /\ i \in 1 .. Len(tasks)
    /\ tasks[i] = Running
    /\ tasks' = [tasks EXCEPT ![i] = res]
    /\ UNCHANGED <<listener, sessionVars, codecVars>>

ListenerNext ==
    \/ LsnAccept
    \/ LsnSpawn
    \/ \E i \in 1 .. MaxSessions, res \in SessionOutcomes : TaskReturn(i, res)

ListenerSpec == ListenerInit /\ [][ListenerNext]_vars

(***************************************************************************)
(* Vocabulary of the properties.                                           *)
(***************************************************************************)
IsPrefix(p, seq) == Len(p) <= Len(seq) /\ SubSeq(seq, 1, Len(p)) = p

IsSuffix(p, seq) ==
    Len(p) <= Len(seq) /\ SubSeq(seq, Len(seq) - Len(p) + 1, Len(seq)) = p

Count(seq, x) == Cardinality({i \in 1 .. Len(seq) : seq[i] = x})

\* A session of Socks5Server run through serve_client.
ServedSession == serverKind = "Socks5Server" /\ entry = "serve_client"

\* The methods of the greeting the client put on the wire.
Offered ==
    LET g == DecodeClientGreeting(c2sHist) IN
    IF g.st = "Ok" THEN {g.val[i] : i \in 1 .. Len(g.val)} ELSE {}

\* The methods Socks5Server is documented to support.
Supported == {NO_AUTHENTICATION, USERNAME_PASSWORD}

\* The handshake is over: the choice was written or the session failed on it.
HandshakeOver ==
    /\ Contains(events, "greeting_read")
    /\ spc # "write_choice"
    /\ srvResult # IoFailure

(***************************************************************************)
(* C1.  Whenever the greeting offers no method the server supports, the    *)
(* server writes ServerChoice 05 FF to the client and only then fails with *)
(* NoAcceptableAuthMethods.                                                *)
(***************************************************************************)
C1_NoAcceptableWritesFF ==
    (ServedSession /\ srvResult.kind = "NoAcceptableAuthMethods")
        => s2cHist = EncodeServerChoice(NO_ACCEPTABLE_METHODS)

(***************************************************************************)
(* C2.  With O the offered methods and S the supported ones, the server    *)
(* transmits a ServerChoice whose method is in O \cap S, or transmits 0xFF *)
(* exactly when O \cap S is empty; 05 01 02 is answered with 05 02.        *)
(***************************************************************************)
C2_MethodIntersection ==
    (ServedSession /\ HandshakeOver)
        => /\ Len(s2cHist) >= 2
           /\ s2cHist[1] = VERSION
           /\ (Offered \cap Supported # {}
                 => s2cHist[2] \in Offered \cap Supported)
           /\ (Offered \cap Supported = {}
                 <=> s2cHist[2] = NO_ACCEPTABLE_METHODS)
           /\ (c2sHist = <<5, 1, 2>> => SubSeq(s2cHist, 1, 2) = <<5, 2>>)

(***************************************************************************)
(* C3.  authenticate with USERNAME_PASSWORD and credentials that are not   *)
(* byte-equal to the configured ones writes ServerResponse 01 01 and only  *)
(* then fails with AuthenticationFailed; no Request is read afterwards.    *)
(***************************************************************************)
C3_AuthFailureWritesStatus1 ==
    srvResult.kind = "AuthenticationFailed"
        => /\ IsSuffix(EncodeServerResponse(STATUS_FAILURE), s2cHist)
           /\ request = NoRequest

(***************************************************************************)
(* C4.  authenticate with USERNAME_PASSWORD and matching credentials       *)
(* writes ServerResponse 01 00 before the Request is read, so there is no  *)
(* state where the client waits for the ServerResponse while the server    *)
(* waits for the Request.                                                  *)
(***************************************************************************)
AuthPassed ==
    /\ serverKind = "Socks5Server"
    /\ auth_method = USERNAME_PASSWORD
    /\ Contains(events, "subnegotiation")
    /\ srvResult.kind # "AuthenticationFailed"

BothWaitToRead ==
    /\ cpc = "auth_read"
    /\ ReadFrom(DecodeServerResponse(s2c), sClosed, reset).st = "Pending"
    /\ spc = "read_request"
    /\ ReadFrom(DecodeRequest(c2s), cClosed, reset).st = "Pending"

C4_AuthSuccessWritesStatus0 ==
    /\ AuthPassed
         => \E i \in 1 .. Len(s2cHist) - 1 :
               SubSeq(s2cHist, i, i + 1) = EncodeServerResponse(STATUS_SUCCESS)
    /\ ~ BothWaitToRead

(***************************************************************************)
(* C5.  For every Request whose command is not CONNECT the server opens no *)
(* outbound connection, writes exactly one Response, 05 07 00 01 00 00 00  *)
(* 00 00 00, and then fails with CommandNotSupported carrying the command  *)
(* (unless that write fails, which ends the session with the I/O error).   *)
(***************************************************************************)
RequestRead == Contains(events, "request_read")

UnsupportedBytes == <<5, 7, 0, 1, 0, 0, 0, 0, 0, 0>>

C5_UnsupportedCommand ==
    /\ (RequestRead /\ request.command # CONNECT)
         => /\ tstate = "none"
            /\ s2t = <<>>
            /\ spc \in {"write_unsupported", "done"}
            /\ spc = "done"
                 => \/ srvResult = IoFailure /\ Count(events, "response_written") = 0
                    \/ /\ srvResult = Res("CommandNotSupported", "", request.command)
                       /\ IsSuffix(UnsupportedBytes, s2cHist)
                       /\ Count(events, "response_written") = 1
    /\ srvResult.kind = "CommandNotSupported"
         => RequestRead /\ request.command # CONNECT

C5_Witness ==
    /\ ServedSession
    /\ c2sHist = <<5, 1, 0, 5, 2, 0, 1, 0, 0, 0, 0, 0, 0>>
    /\ srvResult = Res("CommandNotSupported", "", BIND)
    /\ s2cHist = <<5, 0>> \o UnsupportedBytes

(***************************************************************************)
(* C6.  For a CONNECT Request with any address variant, if the outbound    *)
(* connect fails the server writes a Response with HOST_UNREACHABLE and    *)
(* the zeroed endpoint, never enters the relay, and fails with             *)
(* RequestFailed(HOST_UNREACHABLE) (unless that write fails).              *)
(***************************************************************************)
UnreachableBytes == <<5, 4, 0, 1, 0, 0, 0, 0, 0, 0>>

C6_ConnectFailure ==
    /\ tstate = "failed"
         => /\ request.command = CONNECT
            /\ ~ Contains(events, "relay_started")
            /\ s2t = <<>>
            /\ spc \in {"write_unreachable", "done"}
            /\ spc = "done"
                 => \/ srvResult = IoFailure /\ Count(events, "response_written") = 0
                    \/ /\ srvResult = Res("RequestFailed", "", HOST_UNREACHABLE)
                       /\ IsSuffix(UnreachableBytes, s2cHist)
                       /\ Count(events, "response_written") = 1
    /\ srvResult.kind = "RequestFailed" => tstate = "failed"

C6_Witness ==
    /\ ServedSession
    /\ request = Request(CONNECT, Domain(<<97>>), 443)
    /\ tstate = "failed"
    /\ srvResult = Res("RequestFailed", "", HOST_UNREACHABLE)
    /\ s2cHist = <<5, 0>> \o UnreachableBytes

(***************************************************************************)
(* C7.  In every execution of serve_client the events occur in the order   *)
(* greeting read, ServerChoice written, sub-negotiation (only if           *)
(* USERNAME_PASSWORD was chosen), Request read, Response written, relay    *)
(* started, none skipped; no byte is relayed in either direction before    *)
(* the SUCCESS Response has been written to the client.                    *)
(***************************************************************************)
SessionOrder ==
    IF auth_method = USERNAME_PASSWORD
    THEN <<"greeting_read", "choice_written", "subnegotiation",
           "request_read", "response_written", "relay_started">>
    ELSE <<"greeting_read", "choice_written",
           "request_read", "response_written", "relay_started">>

\* Bytes the relay has moved: those written to the target and those taken
\* from it.
RelayedBytes == Len(s2t) + (tWritten - Len(t2s))

C7_SessionOrdering ==
    ServedSession
        => /\ IsPrefix(events, SessionOrder)
           /\ spc = "relay" => Contains(events, "relay_started")
           /\ RelayedBytes > 0
                => /\ Contains(events, "relay_started")
                   /\ IsPrefix(EncodeServerChoice(auth_method)
                                 \o EncodeResponse(Response(REPLY_SUCCESS,
                                                            request.address,
                                                            request.port)),
                               s2cHist)

C7_Witness ==
    /\ ServedSession
    /\ spc = "relay"
    /\ s2t # <<>>
    /\ tWritten - Len(t2s) > 0

(***************************************************************************)
(* C8.  Once the relay has started, handle_connect returns as soon as      *)
(* either copy direction completes, by end of stream or by error, without  *)
(* waiting for the other; when the target closes cleanly while the client  *)
(* half stays open and idle, the session eventually returns success.       *)
(***************************************************************************)
C8_RelayTermination ==
    (spc = "relay" /\ (tstate \in {"eof", "reset"} \/ cClosed \/ reset))
        ~> (srvResult = OkResult)

C8_Witness ==
    /\ srvResult = OkResult
    /\ tstate = "eof"
    /\ ~ cClosed
    /\ ~ reset
    /\ appSent = 0
    /\ clientKind = "Socks5Client"

(***************************************************************************)
(* C9.  Scenario S1 as stated: greeting 05 01 00, choice 05 00, request    *)
(* 05 01 00 01 01 02 03 04 00 50, response 05 00 00 01 00 00 00 00 00 00,  *)
(* then the relay.                                                         *)
(***************************************************************************)
S1Request == <<5, 1, 0, 1, 1, 2, 3, 4, 0, 80>>

\* A no-auth CONNECT to 1.2.3.4:80 that got its Response after the outbound
\* connect succeeded, the greeting being g.
S1Session(g) ==
    /\ ServedSession
    /\ IsPrefix(g \o S1Request, c2sHist)
    /\ tstate \notin {"none", "failed"}
    /\ Contains(events, "response_written")

C9_S1TranscriptAsStated ==
    S1Session(<<5, 1, 0>>)
        => /\ IsPrefix(<<5, 0, 5, 0, 0, 1, 0, 0, 0, 0, 0, 0>>, s2cHist)
           /\ Contains(events, "relay_started")

(***************************************************************************)
(* C9, amended.  For a no-auth CONNECT to 1.2.3.4:80 the greeting (05 01   *)
(* 00 from a minimal client, 05 02 00 02 from Socks5Client) is answered    *)
(* with 05 00, the request 05 01 00 01 01 02 03 04 00 50 is answered with  *)
(* 05 00 00 01 01 02 03 04 00 50 (the SUCCESS Response echoes the          *)
(* requested address and port), and the session then enters the relay.     *)
(***************************************************************************)
C9_S1TranscriptAmended ==
    /\ \A g \in {<<5, 1, 0>>, <<5, 2, 0, 2>>} :
          S1Session(g)
            => /\ IsPrefix(<<5, 0, 5, 0, 0, 1, 1, 2, 3, 4, 0, 80>>, s2cHist)
               /\ Contains(events, "relay_started")
    /\ (ServedSession /\ clientKind = "Socks5Client"
          /\ target_addr = Ipv4(<<1, 2, 3, 4>>) /\ target_port = 80
          /\ (cpc = "req_read" \/ cliResult = OkResult))
         => IsPrefix(<<5, 2, 0, 2>> \o S1Request, c2sHist)

C9_Witness ==
    /\ S1Session(<<5, 1, 0>>)
    /\ spc = "relay"
    /\ s2cHist = <<5, 0, 5, 0, 0, 1, 1, 2, 3, 4, 0, 80>>

(***************************************************************************)
(* C10.  Socks5Client::connect_to_target against a server session over an  *)
(* in-order byte pipe, the outbound connect succeeding: under fair         *)
(* scheduling the client eventually receives the SUCCESS Response and gets *)
(* the stream back, the server is then in the relay phase, and while both  *)
(* ends stay open the bytes the client writes reach the target and the     *)
(* bytes the target writes reach the client.                               *)
(***************************************************************************)
LibrarySession == ServedSession /\ clientKind = "Socks5Client"

RelayOpen == tstate = "open" /\ ~ cClosed /\ ~ reset

C10_EndToEndConnect ==
    /\ LibrarySession ~> (cliResult = OkResult \/ tstate = "failed" \/ reset)
    /\ [](LibrarySession /\ cliResult = OkResult
            => /\ Contains(events, "relay_started")
               /\ spc \in {"relay", "done"}
               /\ tstate \notin {"none", "failed"})
    /\ \A n \in 0 .. MaxAppBytes :
          (LibrarySession /\ spc = "relay" /\ c2s # <<>> /\ Len(s2t) = n)
            ~> (Len(s2t) > n \/ ~ RelayOpen)
    /\ \A n \in 0 .. MaxTargetBytes :
          (LibrarySession /\ spc = "relay" /\ t2s # <<>>
             /\ tWritten - Len(t2s) = n)
            ~> (tWritten - Len(t2s) > n \/ ~ RelayOpen)
    /\ [](LibrarySession
            => /\ IsPrefix(s2t, SubSeq(c2sHist, Len(c2sHist) - appSent + 1,
                                       Len(c2sHist)))
               /\ tWritten - Len(t2s) > 0
                    => IsSuffix([i \in 1 .. tWritten - Len(t2s)
                                   |-> TargetPayload[1]], s2cHist))

C10_Witness ==
    /\ LibrarySession
    /\ cliResult = OkResult
    /\ spc = "relay"
    /\ RelayOpen
    /\ s2t = Payload
    /\ s2c = TargetPayload

(***************************************************************************)
(* Vocabulary of the client-side properties.                               *)
(***************************************************************************)
\* connect_to_target of this library's client, run from its start.
ClientSession == clientKind = "Socks5Client" /\ entry = "serve_client"

\* The bytes the client has taken off the stream.
ClientConsumed == SubSeq(s2cHist, 1, Len(s2cHist) - Len(s2c))

GreetingBytes == EncodeClientGreeting(OfferedMethods)

\* The client has read a ServerChoice with a valid version byte, and this is
\* the method in it (-1 before that).
ChoiceRead ==
    IF /\ ClientSession
       /\ cpc \notin {"greet", "read_choice"}
       /\ Len(ClientConsumed) >= 2
       /\ ClientConsumed[1] = VERSION
    THEN ClientConsumed[2]
    ELSE -1

(***************************************************************************)
(* C11.  If the ServerChoice carries NO_ACCEPTABLE_METHODS or any method   *)
(* other than NO_AUTHENTICATION and USERNAME_PASSWORD, connect_to_target   *)
(* fails with UnsupportedAuthMethod carrying that method, writes nothing   *)
(* after the greeting and does not return the stream.                      *)
(***************************************************************************)
C11_UnsupportedChoice ==
    /\ (ChoiceRead # -1
          /\ ChoiceRead \notin {NO_AUTHENTICATION, USERNAME_PASSWORD})
         => /\ cliResult = Res("UnsupportedAuthMethod", "", ChoiceRead)
            /\ cpc = "done"
            /\ c2sHist = GreetingBytes
            /\ cClosed
    /\ (ClientSession /\ cliResult.kind = "UnsupportedAuthMethod")
         => /\ ChoiceRead = cliResult.arg
            /\ ChoiceRead \notin {NO_AUTHENTICATION, USERNAME_PASSWORD}

C11_Witness ==
    /\ ClientSession
    /\ ClientConsumed = <<5, 255>>
    /\ cliResult = Res("UnsupportedAuthMethod", "", NO_ACCEPTABLE_METHODS)

\* The ServerResponse of the sub-negotiation as the client decoded it
\* (Pending while it has not read one).
AuthResponseRead ==
    IF ChoiceRead = USERNAME_PASSWORD /\ cpc \notin {"auth_write", "auth_read"}
    THEN DecodeServerResponse(Drop(ClientConsumed, 2))
    ELSE Pending

\* The Response as the client decoded it (Pending while it has not read one).
ResponseRead ==
    IF cpc # "done" THEN Pending
    ELSE IF ChoiceRead = NO_AUTHENTICATION
    THEN DecodeResponse(Drop(ClientConsumed, 2))
    ELSE IF ChoiceRead = USERNAME_PASSWORD
    THEN DecodeResponse(Drop(ClientConsumed, 4))
    ELSE Pending

(***************************************************************************)
(* C12.  connect_to_target returns the stream if and only if it read a     *)
(* Response with REP = SUCCESS (after a successful sub-negotiation when    *)
(* USERNAME_PASSWORD was chosen); for every Response with another REP it   *)
(* fails with RequestFailed carrying exactly that reply code.              *)
(***************************************************************************)
C12_ClientRequestOutcome ==
    ClientSession =>
      LET r == ResponseRead IN
      /\ (cliResult = OkResult)
           <=> (r.st = "Ok" /\ r.val.reply = REPLY_SUCCESS)
      /\ (cliResult.kind = "RequestFailed")
           <=> (r.st = "Ok" /\ r.val.reply # REPLY_SUCCESS)
      /\ cliResult.kind = "RequestFailed"
           => /\ cliResult.arg = r.val.reply
              /\ cClosed
      /\ (cliResult = OkResult /\ ChoiceRead = USERNAME_PASSWORD)
           => /\ AuthResponseRead.st = "Ok"
              /\ AuthResponseRead.val = STATUS_SUCCESS

\* Both directions happen: a stream returned after sub-negotiation and
\* SUCCESS, and (C12_WitnessFailed) a failure carrying the reply code.
C12_Witness ==
    /\ ClientSession
    /\ ChoiceRead = USERNAME_PASSWORD
    /\ cliResult = OkResult
    /\ ~cClosed

C12_WitnessFailed ==
    /\ ClientSession
    /\ cliResult = Res("RequestFailed", "", COMMAND_NOT_SUPPORTED)

\* What the client has written once the sub-negotiation request is out.
UpToAuthRequest ==
    GreetingBytes \o EncodeClientAuthenticationRequest(cliCredentials[1],
                                                       cliCredentials[2])

(***************************************************************************)
(* C13.  After the ClientAuthenticationRequest, a ServerResponse with any  *)
(* non-zero STATUS (1..255) makes the client fail with                     *)
(* AuthenticationFailed, never send the CONNECT Request and drop the       *)
(* stream; the Request is sent only after STATUS = 0.                      *)
(***************************************************************************)
C13_ClientAuthFailure ==
    ClientSession =>
      LET a == AuthResponseRead IN
      /\ (a.st = "Ok" /\ a.val \in 1 .. 255)
           => /\ cliResult = Res("AuthenticationFailed", "", 0)
              /\ cpc = "done"
              /\ c2sHist = UpToAuthRequest
              /\ cClosed
      /\ cliResult.kind = "AuthenticationFailed"
           => (a.st = "Ok" /\ a.val \in 1 .. 255)
      /\ (ChoiceRead = USERNAME_PASSWORD
            /\ Len(c2sHist) > Len(UpToAuthRequest))
           => (a.st = "Ok" /\ a.val = 0)

\* The failure code that is not the library's own FAILURE constant.
C13_Witness ==
    /\ ClientSession
    /\ ClientConsumed = <<5, 2, 1, 255>>
    /\ cliResult.kind = "AuthenticationFailed"

\* The client has been told to run the sub-negotiation: the server chose
\* USERNAME_PASSWORD, or username_password_auth_impl was called directly.
SubNegotiationDue ==
    /\ clientKind = "Socks5Client"
    /\ \/ entry = "authenticate"
       \/ ChoiceRead = USERNAME_PASSWORD

Overlong(credentials) ==
    Len(credentials[1]) > 255 \/ Len(credentials[2]) > 255

(***************************************************************************)
(* C14.  With a configured username or password longer than 255 bytes and  *)
(* USERNAME_PASSWORD selected by the server, the client reports an error   *)
(* locally and writes no byte of the ClientAuthenticationRequest.          *)
(***************************************************************************)
C14_OverlongCredentialsRejected ==
    (SubNegotiationDue /\ Overlong(cliCredentials))
      => /\ cpc \notin {"auth_read", "req_write", "req_read"}
         /\ c2sHist = (IF entry = "authenticate" THEN <<>> ELSE GreetingBytes)
         /\ cpc = "done" => cliResult \notin {OkResult, Running}

(***************************************************************************)
(* Vocabulary of the codec properties.                                     *)
(***************************************************************************)
\* write_to has returned for the value of the exercise.
WriteReturned == msgKind \in CodecKinds /\ written \notin {"no", "raw"}

\* read_from has returned.
ReadReturned == msgKind \in CodecKinds /\ decoded.st # "Pending"

FitsLengthOctet(address) ==
    address.type = "Domain" => Len(address.bytes) <= 255

\* The values whose variable-length fields fit their one-octet length.
WellFormed(kind, v) ==
    CASE kind = "ClientGreeting" -> Len(v) <= 255
      [] kind \in {"Request", "Response"} -> FitsLengthOctet(v.address)
      [] kind = "ClientAuthenticationRequest" ->
           Len(v[1]) <= 255 /\ Len(v[2]) <= 255
      [] kind = "Address" -> FitsLengthOctet(v)
      [] OTHER -> TRUE

(***************************************************************************)
(* C15.  Encoding an Address::Domain longer than 255 bytes is rejected     *)
(* with an error, and no DOMAIN_NAME field is emitted whose length byte    *)
(* disagrees with the number of domain bytes written.                      *)
(***************************************************************************)
C15_LongDomainRejected ==
    (WriteReturned /\ msgKind = "Address" /\ ~FitsLengthOctet(value))
      => /\ written # "Ok"
         /\ ~(/\ Len(wire) >= 2
              /\ wire[1] = DOMAIN_NAME
              /\ wire[2] # Len(value.bytes))

(***************************************************************************)
(* C16.  For every well-formed value of ClientGreeting (the empty method   *)
(* list included), ServerChoice, Request and Response with each Address   *)
(* variant (IPv4, a domain of 0..255 arbitrary bytes, IPv6),               *)
(* ClientAuthenticationRequest and ServerResponse, decoding the encoding   *)
(* gives the value back and consumes exactly the bytes written.            *)
(***************************************************************************)
C16_RoundTrip ==
    (WriteReturned /\ ReadReturned /\ WellFormed(msgKind, value))
      => decoded = Decoded(value, Len(Encode(msgKind, value)))

\* A Request with the longest domain, read back with a byte behind it.
C16_Witness ==
    /\ WriteReturned
    /\ msgKind = "Request"
    /\ value.address = Domain(DomainOfLength(255))
    /\ value.port = 80
    /\ Trailing = 1
    /\ decoded.st = "Ok"

\* The version byte each message type expects in front.
ExpectedVersion(kind) ==
    IF kind \in {"ClientAuthenticationRequest", "ServerResponse"}
    THEN AUTH_VERSION
    ELSE VERSION

\* read_from is given a peer's stream whose first byte is not the version.
WrongVersionGiven ==
    /\ msgKind \in MessageKinds
    /\ written = "raw"
    /\ wire[1] # ExpectedVersion(msgKind)

(***************************************************************************)
(* C17.  Every message decoder (ClientGreeting, ServerChoice, Request,     *)
(* Response expecting 0x05; ClientAuthenticationRequest, ServerResponse    *)
(* expecting 0x01) answers a wrong first byte b with                       *)
(* InvalidProtocolVersion(b), and needs no byte after the version byte to  *)
(* be available to do so.                                                  *)
(***************************************************************************)
C17_VersionRejection ==
    WrongVersionGiven
      => /\ decoded.st = "Pending" => ENABLED CodecReadFrom
         /\ decoded.st # "Pending"
              => /\ decoded.st = "Err"
                 /\ decoded.err = "InvalidProtocolVersion"
                 /\ decoded.byte = wire[1]

\* The same, for the four decoders that read the version byte on its own.
C17_VersionRejectionByteWise ==
    (WrongVersionGiven /\ msgKind \notin {"ServerChoice", "ServerResponse"})
      => /\ decoded.st = "Pending" => ENABLED CodecReadFrom
         /\ decoded.st # "Pending"
              => /\ decoded.st = "Err"
                 /\ decoded.err = "InvalidProtocolVersion"
                 /\ decoded.byte = wire[1]

(***************************************************************************)
(* C20.  Status(0) is a success and not a failure; every Status(b) with b  *)
(* in 1..255 is a failure and not a success; two statuses are equal        *)
(* exactly when they are in the same class (Status(1) = Status(0xFF),      *)
(* Status(0) # Status(b) for b # 0), and that equality is reflexive,       *)
(* symmetric and transitive.                                               *)
(***************************************************************************)
C20_StatusSemantics ==
    (msgKind = "Status" /\ decoded.st = "Ok") =>
      LET a == value[1]
          b == value[2]
          c == value[3]
          v == decoded.val
      IN /\ a = 0 => (v.is_success /\ ~v.is_failure)
         /\ a \in 1 .. 255 => (v.is_failure /\ ~v.is_success)
         /\ v.ab <=> ((a = 0) <=> (b = 0))
         /\ v.aa
         /\ v.ab <=> v.ba
         /\ (v.ab /\ v.bc) => v.ac

\* Two different failure codes compared, and found equal.
C20_Witness ==
    /\ msgKind = "Status"
    /\ value = <<1, 255, 2>>
    /\ decoded.st = "Ok"
    /\ decoded.val.ab
    /\ decoded.val.is_failure

(***************************************************************************)
(* C18.  When the greeting offers both NO_AUTHENTICATION and               *)
(* USERNAME_PASSWORD and the server has credentials configured, as every   *)
(* Socks5Server has, the server selects USERNAME_PASSWORD.                 *)
(***************************************************************************)
C18_CredentialAwarePreference ==
    (ServedSession /\ HandshakeOver
       /\ {NO_AUTHENTICATION, USERNAME_PASSWORD} \subseteq Offered)
      => IsPrefix(EncodeServerChoice(USERNAME_PASSWORD), s2cHist)

(***************************************************************************)
(* Vocabulary of the listener properties.                                  *)
(***************************************************************************)
\* In this step task i returned, and nothing else moved.
TaskEndsAlone(i) ==
    (tasks[i] = Running /\ tasks'[i] # Running)
      => /\ listener' = listener
         /\ Len(tasks') = Len(tasks)
         /\ \A j \in 1 .. Len(tasks) : j # i => tasks'[j] = tasks[j]

\* In this step run returned, and it was accept that failed.
RunReturnsOnAcceptOnly ==
    (listener # "returned" /\ listener' = "returned")
      => (listener = "accept" /\ tasks' = tasks)

\* The loop is not waiting for any session: its next step is open to it.
LoopFree ==
    (listener # "returned" /\ Len(tasks) < MaxSessions)
      => ENABLED (LsnAccept \/ LsnSpawn)

(***************************************************************************)
(* C19.  In Socks5Listener::run a session that ends with any ServerError   *)
(* neither ends the accept loop nor touches another session; the loop      *)
(* stops only when accept itself returns an error; and the sessions run    *)
(* concurrently, so a stalled one does not keep the loop from accepting.   *)
(***************************************************************************)
C19_ListenerResilience ==
    /\ [][/\ \A i \in 1 .. Len(tasks) : TaskEndsAlone(i)
          /\ RunReturnsOnAcceptOnly]_vars
    /\ [](listener # "none" => LoopFree)

\* A first session stalled, a second one failed, and a third was accepted
\* after that and is running; the loop is back in accept.
C19_Witness ==
    /\ listener = "accept"
    /\ Len(tasks) = 3
    /\ tasks[1] = Running
    /\ tasks[2] = Res("AuthenticationFailed", "", 0)
    /\ tasks[3] = Running

\* The length octets the encoding of the value carries, each with the number
\* of payload bytes written right after it.
LengthFields ==
    CASE msgKind = "ClientGreeting" -> {<<wire[2], Len(value)>>}
      [] msgKind = "ClientAuthenticationRequest" ->
           {<<wire[2], Len(value[1])>>,
            <<wire[3 + Len(value[1])], Len(value[2])>>}
      [] OTHER -> {}

(***************************************************************************)
(* C21.  For every ClientGreeting and ClientAuthenticationRequest value,   *)
(* of every number of methods and every username and password length the   *)
(* types can hold, each length byte the encoder emits (NMETHODS, ULEN,     *)
(* PLEN) equals the number of payload bytes written right after it, so the *)
(* decoder re-frames the message at the same boundaries.                   *)
(***************************************************************************)
C21_LengthPrefixFidelity ==
    (WriteReturned
       /\ msgKind \in {"ClientGreeting", "ClientAuthenticationRequest"})
      => /\ \A f \in LengthFields : f[1] = f[2]
         /\ ReadReturned
              => decoded = Decoded(value, Len(Encode(msgKind, value)))

\* The same, for the values whose fields fit their length octet.
C21_LengthPrefixFidelityWellFormed ==
    (WriteReturned
       /\ msgKind \in {"ClientGreeting", "ClientAuthenticationRequest"}
       /\ WellFormed(msgKind, value))
      => /\ \A f \in LengthFields : f[1] = f[2]
         /\ ReadReturned
              => decoded = Decoded(value, Len(Encode(msgKind, value)))

\* Where the address tag sits in the stream of the exercise.
TagAt == IF msgKind = "Address" THEN 1 ELSE 4

\* read_from is given a peer's stream that reaches the address tag.
TagGiven ==
    /\ msgKind \in {"Address", "Request", "Response"}
    /\ written = "raw"
    /\ Len(wire) >= TagAt
    /\ msgKind # "Address" => wire[1] = VERSION

(***************************************************************************)
(* C22.  Address::read_from dispatches only on the tags 0x01, 0x03 and     *)
(* 0x04; every other tag byte gives MalformedMessage after reading the tag *)
(* byte only, and a Request or Response with such a tag fails to decode    *)
(* with the same error.                                                    *)
(***************************************************************************)
C22_AddressTagExhaustive ==
    TagGiven =>
      LET tag == wire[TagAt] IN
      /\ tag \notin {IP_V4, DOMAIN_NAME, IP_V6}
           => /\ decoded.st = "Pending" => ENABLED CodecReadFrom
              /\ decoded.st # "Pending"
                   => decoded = Failed("MalformedMessage", 0, TagAt)
      /\ tag \in {IP_V4, DOMAIN_NAME, IP_V6}
           => decoded.err # "MalformedMessage"

\* A Request with the tag 0x02 was refused at the tag.
C22_Witness ==
    /\ msgKind = "Request"
    /\ written = "raw"
    /\ wire = <<5, 1, 0, 2>>
    /\ ~wireEof
    /\ decoded = Failed("MalformedMessage", 0, 4)

(***************************************************************************)
(* Vocabulary of the server-side properties.                               *)
(***************************************************************************)
LibraryServer == serverKind = "Socks5Server"

\* The bytes the server has taken off the client's stream.
ServerConsumed == SubSeq(c2sHist, 1, Len(c2sHist) - Len(c2s))

\* The bytes the server took before it came to read the Request, as a
\* decoder result: the greeting under serve_client, the authentication
\* request when authenticate is entered with USERNAME_PASSWORD, nothing
\* otherwise.
BeforeRequest ==
    IF entry = "serve_client" THEN DecodeClientGreeting(ServerConsumed)
    ELSE IF auth_method = USERNAME_PASSWORD
    THEN DecodeClientAuthenticationRequest(ServerConsumed)
    ELSE Decoded(<<>>, 0)

\* The first bytes the server took that did not decode, as the decoder's
\* error (Pending when everything it took decoded).
ServerDecodeError ==
    IF BeforeRequest.st = "Err" THEN BeforeRequest
    ELSE IF BeforeRequest.st = "Pending" THEN Pending
    ELSE LET q == DecodeRequest(Drop(ServerConsumed, BeforeRequest.used)) IN
         IF q.st = "Err" THEN q ELSE Pending

(***************************************************************************)
(* C23.  When the server receives bytes that do not decode (a wrong        *)
(* version byte in the greeting, the authentication request or the         *)
(* Request, or an unknown address tag in the Request), the session ends    *)
(* with ServerError::Protocol, writes no byte to the client from the point *)
(* of the error on (no ServerChoice, ServerResponse or Response for that   *)
(* step), and opens no outbound connection.                                *)
(***************************************************************************)
C23_SilentProtocolError ==
    LibraryServer =>
      /\ ServerDecodeError.st = "Err"
           <=> (srvResult.kind = "Protocol" /\ srvResult.cause # "IoError")
      /\ ServerDecodeError.st = "Err"
           => /\ srvResult = Protocol(ServerDecodeError)
              /\ spc = "done"
              /\ sClosed
              /\ tstate = "none"
              /\ ~Contains(events, "response_written")
              /\ s2cHist = (IF Contains(events, "choice_written")
                            THEN EncodeServerChoice(auth_method)
                            ELSE <<>>)

\* A Request with an unknown address tag, after a completed handshake.
C23_Witness ==
    /\ ServedSession
    /\ srvResult = Res("Protocol", "MalformedMessage", 0)
    /\ s2cHist = <<5, 0>>
    /\ Contains(events, "choice_written")

\* A greeting with a wrong version byte.
C23_WitnessGreeting ==
    /\ ServedSession
    /\ srvResult = Res("Protocol", "InvalidProtocolVersion", 4)
    /\ s2cHist = <<>>
    /\ events = <<>>

\* authenticate has returned Ok: the session is at or past the read of the
\* Request.
PastAuthenticate ==
    \/ spc \in {"read_request", "connect", "write_unsupported",
                "write_unreachable", "write_success", "relay"}
    \/ RequestRead

\* What makes authenticate return Ok for the method it is given.
AuthenticateAccepts(method) ==
    IF method = USERNAME_PASSWORD
    THEN /\ BeforeRequest.st = "Ok"
         /\ BeforeRequest.val = srvCredentials
    ELSE default_authenticate_impl(method) = OkResult

\* An outbound connection was attempted.
ConnectAttempted == tstate # "none"

(***************************************************************************)
(* C24.  In every execution of serve_client the Request is read and an     *)
(* outbound connection attempted only after perform_handshake transmitted  *)
(* a ServerChoice other than 0xFF and authenticate returned success for    *)
(* exactly that method, and only when the command is CONNECT; after a      *)
(* failed handshake or authentication no outbound connection is opened.    *)
(***************************************************************************)
C24_AuthenticationGatesRequest ==
    /\ (ServedSession /\ PastAuthenticate)
         => /\ Len(s2cHist) >= 2
            /\ s2cHist[1] = VERSION
            /\ s2cHist[2] # NO_ACCEPTABLE_METHODS
            /\ s2cHist[2] = auth_method
            /\ Contains(events, "choice_written")
    /\ (LibraryServer /\ PastAuthenticate) => AuthenticateAccepts(auth_method)
    /\ (LibraryServer /\ ConnectAttempted)
         => /\ PastAuthenticate
            /\ RequestRead
            /\ request.command = CONNECT
    /\ (LibraryServer
          /\ srvResult.kind \in {"NoAcceptableAuthMethods",
                                 "AuthenticationFailed"})
         => /\ ~RequestRead
            /\ ~ConnectAttempted
    /\ (ServedSession /\ spc = "done"
          /\ ~Contains(events, "choice_written"))
         => /\ ~RequestRead
            /\ ~ConnectAttempted

\* The gate opened: a served session connected out for a CONNECT.
C24_Witness ==
    /\ ServedSession
    /\ tstate = "open"
    /\ request.command = CONNECT
    /\ s2cHist[2] = NO_AUTHENTICATION

\* The gate stayed shut: wrong credentials, no Request read.
C24_WitnessShut ==
    /\ LibraryServer
    /\ srvResult.kind = "AuthenticationFailed"
    /\ c2s # <<>>

\* What the server wrote after the ServerChoice.
AfterChoiceBytes ==
    Drop(s2cHist, IF Contains(events, "choice_written") THEN 2 ELSE 0)

\* The bytes are what the relay copied from the target to the client.
CopiedFromTarget(bytes) ==
    /\ Len(bytes) <= tWritten - Len(t2s)
    /\ \A i \in 1 .. Len(bytes) : bytes[i] = TargetPayload[1]

RelayEntered == Contains(events, "relay_started")

(***************************************************************************)
(* C25.  Every server session writes at most one Response; a Response with *)
(* REP = SUCCESS is written only if the outbound connect succeeded; and    *)
(* the relay is entered only if that SUCCESS Response was written without  *)
(* error (a failed write of it ends the session with an I/O error and no   *)
(* relay).                                                                 *)
(***************************************************************************)
C25_SingleReply ==
    LibraryServer =>
      LET d == DecodeResponse(AfterChoiceBytes) IN
      /\ Count(events, "response_written") <= 1
      /\ AfterChoiceBytes # <<>>
           => /\ d.st = "Ok"
              /\ Contains(events, "response_written")
              /\ IF d.val.reply = REPLY_SUCCESS
                 THEN /\ tstate \in {"open", "eof", "reset"}
                      /\ RelayEntered
                      /\ CopiedFromTarget(Drop(AfterChoiceBytes, d.used))
                 ELSE /\ d.used = Len(AfterChoiceBytes)
                      /\ ~RelayEntered
      /\ RelayEntered
           => /\ d.st = "Ok"
              /\ d.val = SuccessResponse(request)
      /\ (spc = "done" /\ AfterChoiceBytes = <<>>)
           => /\ ~RelayEntered
              /\ srvResult # OkResult

\* The SUCCESS Response, then relayed bytes, and nothing else.
C25_Witness ==
    /\ LibraryServer
    /\ RelayEntered
    /\ Len(AfterChoiceBytes) > DecodeResponse(AfterChoiceBytes).used
    /\ srvResult = OkResult

\* The write of the SUCCESS Response failed: an I/O error and no relay.
C25_WitnessWriteFailed ==
    /\ LibraryServer
    /\ tstate = "open"
    /\ srvResult = IoFailure
    /\ AfterChoiceBytes = <<>>

C26_WitnessTargetReset ==
    /\ LibraryServer
    /\ RelayEntered
    /\ tstate = "reset"
    /\ ~reset
    /\ srvResult = OkResult

\* The relay ended by the end of the client's stream.
C26_WitnessClientEof ==
    /\ LibraryServer
    /\ RelayEntered
    /\ tstate = "open"
    /\ ~reset
    /\ cClosed
    /\ srvResult = OkResult

====
